---- MODULE Spec2Model ----
(***************************************************************************)
(* Model of the Buzzalicious scheduled-post dispatcher                     *)
(* (backend/src/services/scheduler.service.ts) and of the scheduled-post   *)
(* routes (schedule, cancel, reschedule) that feed the same store, and of   *)
(* the OAuth connect and callback routes (backend/src/routes/              *)
(* social.routes.ts) with their in-memory Maps.                            *)
(*                                                                         *)
(* Every await of the code is a step boundary: the store and the two       *)
(* platform APIs are shared with the HTTP handlers, which may run between  *)
(* any two awaits of a running tick.                                       *)
(***************************************************************************)
EXTENDS Integers, Sequences, FiniteSets, TLC

\* ---------------------------------------------------------------- bounds
MaxPosts == 2      \* rows the store may hold
MaxTime  == 3      \* the clock runs over 1..MaxTime
MaxTicks == 2      \* executions of processDuePosts that are started
NumTicks == 2      \* executions that may be in flight together
MaxOverlapPosts == 1   \* rows the store may hold when runs overlap
MaxConnects  == 2  \* connect requests that are served
MaxCallbacks == 2  \* OAuth callbacks that may be in flight together

\* ---------------------------------------------------------------- values
NULL == <<>>
Some(x) == <<x>>

Users     == {"u1", "u2"}
Platforms == {"twitter", "linkedin", "both"}
Ticks     == 1..NumTicks
Times     == 1..MaxTime

\* generation requests that exist in the store; "gX" is an id that a
\* schedule request may carry although no such row exists (the column has
\* no foreign key)
GenRows == {"g1"}
GenRefs == {NULL, Some("g1"), Some("gX")}

\* the providers of the OAuth routes, and the values an oauth_token
\* (Twitter) or a state (LinkedIn, Canva) may take
Providers   == {"twitter", "linkedin", "canva"}
OAuthStates == {"s1", "s2"}
Callbacks   == 1..MaxCallbacks

VARIABLES
  now,        \* the clock (new Date())
  users,      \* users table: stored credentials
  posts,      \* scheduled_posts table, a sequence; the id is the index
  gens,       \* generation_requests table
  pc,         \* per execution of processDuePosts: where it is
  batch,      \* per execution: duePosts, the rows (with user) it read
  idx,        \* per execution: position of the for loop in duePosts
  cur,        \* per execution: the locals of processPost
  started,    \* number of executions started so far
  req,        \* the cancel/reschedule request between its read and write
  calls,      \* history: publish calls made, per post and platform
  oauthTokenStore,     \* Map oauth_token -> {secret, userId} (Twitter)
  linkedinStateStore,  \* Map state -> userId
  canvaStateStore,     \* Map state -> {userId, codeVerifier}
  canvaAccessToken,    \* users table: the canvaAccessToken column
  callbacks,  \* per OAuth callback in flight: the locals it holds
  handshakes  \* history: per provider and state, who issued it and how
              \* often it was issued and accepted

oauthVars == <<oauthTokenStore, linkedinStateStore, canvaStateStore,
               canvaAccessToken, callbacks, handshakes>>

vars == <<now, users, posts, gens, pc, batch, idx, cur, started, req, calls,
          oauthVars>>

\* ------------------------------------------------------------ the store
\* a row of scheduled_posts as prisma.scheduledPost.create leaves it: the
\* columns without a value take the schema's defaults
NewPost(userId, content, platform, scheduledFor, gen) ==
  [ userId |-> userId, content |-> content, platform |-> platform,
    scheduledFor |-> scheduledFor, status |-> "pending",
    twitterPostId |-> NULL, twitterPostedAt |-> NULL, twitterError |-> NULL,
    linkedinPostId |-> NULL, linkedinPostedAt |-> NULL, linkedinError |-> NULL,
    generationRequestId |-> gen ]

PostIds == 1..Len(posts)

\* the users table: u1 has connected both platforms and holds a LinkedIn
\* token that expires at time 3; u2 has connected neither
InitUsers ==
  [ u \in Users |->
      IF u = "u1"
      THEN [ twitterAccessToken |-> Some("tok"), twitterAccessSecret |-> Some("sec"),
             linkedinAccessToken |-> Some("tok"), linkedinTokenExpiry |-> Some(3) ]
      ELSE [ twitterAccessToken |-> NULL, twitterAccessSecret |-> NULL,
             linkedinAccessToken |-> NULL, linkedinTokenExpiry |-> NULL ] ]

InitGens ==
  [ g \in GenRows |->
      [ postedToTwitter |-> FALSE, twitterPostId |-> NULL,
        postedToLinkedIn |-> FALSE, linkedinPostId |-> NULL ] ]

\* the locals of processPost as declared at its top
InitLocals ==
  [ twitterSuccess |-> FALSE, linkedinSuccess |-> FALSE,
    twitterError |-> NULL, linkedinError |-> NULL,
    twitterPostId |-> NULL, linkedinPostId |-> NULL ]

NoReq  == [ op |-> "none", id |-> 0, at |-> 0 ]

\* an empty Map of the OAuth routes: no key has an entry
EmptyStore == [ s \in OAuthStates |-> NULL ]

\* a callback slot that serves no request
NoCallback == [ provider |-> "none", state |-> "", userId |-> "", code |-> 0 ]

NoHandshake == [ issuers |-> {}, issued |-> 0, accepted |-> 0 ]

Init ==
  /\ now = 1
  /\ users = InitUsers
  /\ posts = <<>>
  /\ gens = InitGens
  /\ pc = [t \in Ticks |-> "idle"]
  /\ batch = [t \in Ticks |-> <<>>]
  /\ idx = [t \in Ticks |-> 1]
  /\ cur = [t \in Ticks |-> InitLocals]
  /\ started = 0
  /\ req = NoReq
  /\ calls = <<>>
  /\ oauthTokenStore = EmptyStore
  /\ linkedinStateStore = EmptyStore
  /\ canvaStateStore = EmptyStore
  /\ canvaAccessToken = [ u \in Users |-> NULL ]
  /\ callbacks = [ c \in Callbacks |-> NoCallback ]
  /\ handshakes = [ p \in Providers |-> [ s \in OAuthStates |-> NoHandshake ] ]

\* ------------------------------------------------------------ the clock
\* one unit of the clock is longer than a run of processDuePosts or a
\* request: the clock moves between them
Advance ==
  /\ now < MaxTime
  /\ \A t \in Ticks : pc[t] = "idle"
  /\ req.op = "none"
  /\ now' = now + 1
  /\ UNCHANGED <<users, posts, gens, pc, batch, idx, cur, started, req, calls, oauthVars>>

\* ---------------------------------------------------- scheduled-post routes
\* the scheduledFor of a request body: absent, a string that new Date()
\* cannot parse, or a date
Missing   == [ kind |-> "missing", t |-> 0 ]
Invalid   == [ kind |-> "invalid", t |-> 0 ]
DateAt(t) == [ kind |-> "date", t |-> t ]
DateInputs == {Missing, Invalid} \cup { DateAt(t) : t \in Times }

\* the content and platform of a request body; "" stands for an absent
\* (or empty) value, which !x treats alike
ContentInputs  == {"", "hello"}
PlatformInputs == {"", "facebook"} \cup Platforms

\* ScheduleCode with the date test written < instead of <=: a post
\* scheduled for the current instant is accepted
ScheduleCode_AcceptsNow(content, platform, sf, t) ==
  IF content = "" \/ platform = "" \/ sf.kind = "missing" THEN 400
  ELSE IF platform \notin {"twitter", "linkedin", "both"} THEN 400
  ELSE IF sf.kind = "date" /\ sf.t < t THEN 400
  ELSE IF sf.kind = "invalid" THEN 500
  ELSE 200

\* POST /: the status the handler answers with.  An unparseable date is
\* not <= new Date() (the comparison with NaN is false), passes the
\* validation and is refused by prisma.scheduledPost.create, which throws
\* into the handler's catch
ScheduleCode(content, platform, sf, t) ==
  IF content = "" \/ platform = "" \/ sf.kind = "missing" THEN 400
  ELSE IF platform \notin {"twitter", "linkedin", "both"} THEN 400
  ELSE IF sf.kind = "date" /\ sf.t <= t THEN 400
  ELSE IF sf.kind = "invalid" THEN 500
  ELSE 200

\* POST /
Schedule(u, content, platform, sf, gen) ==
  /\ IF ScheduleCode(content, platform, sf, now) = 200
     THEN /\ Len(posts) < MaxPosts
          /\ posts' = Append(posts, NewPost(u, content, platform, sf.t, gen))
          /\ calls' = Append(calls, [twitter |-> 0, linkedin |-> 0])
     ELSE UNCHANGED <<posts, calls>>
  /\ UNCHANGED <<now, users, gens, pc, batch, idx, cur, started, req, oauthVars>>

\* Found by id alone: findFirst({ where: { id } })
Found_AnyUser(u, id) == id \in PostIds

\* prisma.scheduledPost.findFirst({ where: { id, userId } })
Found(u, id) == id \in PostIds /\ posts[id].userId = u

\* DELETE /:id: the status decided from the row that findFirst returned
CancelCode(u, id) ==
  IF ~Found(u, id) THEN 404
  ELSE IF posts[id].status = "posted" THEN 400
  ELSE 200

\* DELETE /:id up to its second await: the row is read and checked
CancelFind(u, id) ==
  /\ req.op = "none"
  /\ req' = IF CancelCode(u, id) = 200
            THEN [ op |-> "cancel", id |-> id, at |-> 0 ]
            ELSE req
  /\ UNCHANGED <<now, users, posts, gens, pc, batch, idx, cur, started, calls, oauthVars>>

\* CancelWrite blanking the text of the cancelled post
CancelWrite_ClearsContent ==
  /\ req.op = "cancel"
  /\ posts' = [posts EXCEPT ![req.id].status = "cancelled", ![req.id].content = ""]
  /\ req' = NoReq
  /\ UNCHANGED <<now, users, gens, pc, batch, idx, cur, started, calls, oauthVars>>

\* DELETE /:id from its second await: the row is written, success answered
CancelWrite ==
  /\ req.op = "cancel"
  /\ posts' = [posts EXCEPT ![req.id].status = "cancelled"]
  /\ req' = NoReq
  /\ UNCHANGED <<now, users, gens, pc, batch, idx, cur, started, calls, oauthVars>>

\* PATCH /:id: the status decided from the row that findFirst returned
RescheduleCode(u, id, sf, t) ==
  IF ~Found(u, id) THEN 404
  ELSE IF posts[id].status # "pending" THEN 400
  ELSE IF sf.kind = "date" /\ sf.t <= t THEN 400
  ELSE IF sf.kind # "date" THEN 500
  ELSE 200

\* PATCH /:id up to its second await
RescheduleFind(u, id, sf) ==
  /\ req.op = "none"
  /\ req' = IF RescheduleCode(u, id, sf, now) = 200
            THEN [ op |-> "reschedule", id |-> id, at |-> sf.t ]
            ELSE req
  /\ UNCHANGED <<now, users, posts, gens, pc, batch, idx, cur, started, calls, oauthVars>>

\* PATCH /:id from its second await
RescheduleWrite ==
  /\ req.op = "reschedule"
  /\ posts' = [posts EXCEPT ![req.id].scheduledFor = req.at]
  /\ req' = NoReq
  /\ UNCHANGED <<now, users, gens, pc, batch, idx, cur, started, calls, oauthVars>>

\* ------------------------------------------------------------ dispatcher
\* IsDue without the status filter: every row whose time has come
IsDue_IgnoresStatus(id, t) == posts[id].scheduledFor <= t

\* IsDue without the time filter: every pending row
IsDue_IgnoresTime(id, t) == posts[id].status = "pending"

\* IsDue with a claim on the row: a post that a run in progress holds in
\* its batch is not selected again
IsDue_NotInFlight(id, t) ==
  /\ posts[id].status = "pending" /\ posts[id].scheduledFor <= t
  /\ \A s \in Ticks : \A i \in DOMAIN batch[s] : batch[s][i].id # id

\* the where clause of the findMany of processDuePosts
IsDue(id, t) == posts[id].status = "pending" /\ posts[id].scheduledFor <= t

DuePosts(t) == { id \in PostIds : IsDue(id, t) }

\* a row as findMany returns it, with include: { user: true }: the tick
\* works on this copy, credentials included, not on the store
Snapshot(id) ==
  [ id |-> id, content |-> posts[id].content, platform |-> posts[id].platform,
    user |-> users[posts[id].userId],
    generationRequestId |-> posts[id].generationRequestId ]

\* the orders in which findMany (no orderBy) may return a set of rows
Orders(S) ==
  { q \in [1..Cardinality(S) -> S] : \A i, j \in DOMAIN q : i # j => q[i] # q[j] }

\* ------------------------------------------------------- the list route
\* the status of the query string of GET /; "" stands for an absent (or
\* empty) parameter, and "archived" for a value no row has
StatusInputs == {"", "pending", "posted", "failed", "cancelled", "archived"}

\* ListWhere without the user: the filter holds the status only
ListWhere_AnyUser(u, st) ==
  [ userId |-> NULL, status |-> IF st # "" THEN Some(st) ELSE NULL ]

\* GET /: the where object of its findMany
ListWhere(u, st) ==
  [ userId |-> Some(u), status |-> IF st # "" THEN Some(st) ELSE NULL ]

\* a row satisfies a where object: every field the object holds is equal
WhereMatches(id, where) ==
  /\ where.userId # NULL => posts[id].userId = where.userId[1]
  /\ where.status # NULL => posts[id].status = where.status[1]

\* GET /: the answers findMany may give, the rows that satisfy the where
\* object in ascending order of scheduledFor (rows of equal scheduledFor
\* in either order)
List(u, st) ==
  LET ids == { id \in PostIds : WhereMatches(id, ListWhere(u, st)) } IN
  { q \in Orders(ids) :
      \A i, j \in DOMAIN q :
        i < j => posts[q[i]].scheduledFor <= posts[q[j]].scheduledFor }

\* ------------------------------------------------- dispatcher, continued
\* the post that execution t is processing
Post(t) == batch[t][idx[t]]

\* processDuePosts returning (its loop is over, or its catch has run):
\* the locals of the execution are gone
Return(t) ==
  /\ pc' = [pc EXCEPT ![t] = "idle"]
  /\ batch' = [batch EXCEPT ![t] = <<>>]
  /\ idx' = [idx EXCEPT ![t] = 1]
  /\ cur' = [cur EXCEPT ![t] = InitLocals]

\* processDuePosts up to the first await of its loop.  Executions are
\* numbered in the order of their start: t is the first free number
StartTick(t) ==
  /\ pc[t] = "idle"
  /\ \A s \in Ticks : s < t => pc[s] # "idle"
  /\ started < MaxTicks
  /\ started' = started + 1
  /\ IF DuePosts(now) = {}
     THEN UNCHANGED <<pc, batch, idx, cur>>
     ELSE /\ \E q \in Orders(DuePosts(now)) :
               batch' = [batch EXCEPT ![t] = [i \in DOMAIN q |-> Snapshot(q[i])]]
          /\ pc' = [pc EXCEPT ![t] = "twitter"]
          /\ UNCHANGED <<idx, cur>>
  /\ UNCHANGED <<now, users, posts, gens, req, calls, oauthVars>>

\* processPost, "Post to Twitter"
PostToTwitter(t) ==
  /\ pc[t] = "twitter"
  /\ LET post == Post(t) IN
     IF post.platform = "twitter" \/ post.platform = "both"
     THEN IF post.user.twitterAccessToken # NULL /\ post.user.twitterAccessSecret # NULL
          THEN /\ calls' = [calls EXCEPT ![post.id].twitter = @ + 1]
               /\ \E ok \in BOOLEAN :
                    cur' = [cur EXCEPT ![t] =
                      IF ok
                      THEN [@ EXCEPT !.twitterPostId = Some(calls'[post.id].twitter),
                                     !.twitterSuccess = TRUE]
                      ELSE [@ EXCEPT !.twitterError = Some("twitter api error")]]
          ELSE /\ cur' = [cur EXCEPT ![t].twitterError = Some("Twitter not authorized")]
               /\ UNCHANGED calls
     ELSE UNCHANGED <<cur, calls>>
  /\ pc' = [pc EXCEPT ![t] = "linkedin"]
  /\ UNCHANGED <<now, users, posts, gens, batch, idx, started, req, oauthVars>>

\* LinkedInExpired with the test written < instead of <=: a token is still
\* used at the instant it expires
LinkedInExpired_StrictlyBefore(user, t) ==
  user.linkedinTokenExpiry # NULL /\ user.linkedinTokenExpiry[1] < t

\* the expiry test at the top of the LinkedIn try block
LinkedInExpired(user, t) ==
  user.linkedinTokenExpiry # NULL /\ user.linkedinTokenExpiry[1] <= t

\* processPost, "Post to LinkedIn"
PostToLinkedIn(t) ==
  /\ pc[t] = "linkedin"
  /\ LET post == Post(t) IN
     IF post.platform = "linkedin" \/ post.platform = "both"
     THEN IF post.user.linkedinAccessToken # NULL
          THEN IF LinkedInExpired(post.user, now)
               THEN /\ cur' = [cur EXCEPT ![t].linkedinError = Some("LinkedIn token expired")]
                    /\ UNCHANGED calls
               ELSE /\ calls' = [calls EXCEPT ![post.id].linkedin = @ + 1]
                    /\ \E ok \in BOOLEAN :
                         cur' = [cur EXCEPT ![t] =
                           IF ok
                           THEN [@ EXCEPT !.linkedinPostId = Some(calls'[post.id].linkedin),
                                          !.linkedinSuccess = TRUE]
                           ELSE [@ EXCEPT !.linkedinError = Some("Failed to post to LinkedIn")]]
          ELSE /\ cur' = [cur EXCEPT ![t].linkedinError = Some("LinkedIn not authorized")]
               /\ UNCHANGED calls
     ELSE UNCHANGED <<cur, calls>>
  /\ pc' = [pc EXCEPT ![t] = "update"]
  /\ UNCHANGED <<now, users, posts, gens, batch, idx, started, req, oauthVars>>

\* OverallStatus with "both" read as all-or-nothing
OverallStatus_AllOrNothing(platform, twitterSuccess, linkedinSuccess) ==
  IF platform = "twitter" /\ twitterSuccess THEN "posted"
  ELSE IF platform = "linkedin" /\ linkedinSuccess THEN "posted"
  ELSE IF platform = "both" /\ (twitterSuccess /\ linkedinSuccess) THEN "posted"
  ELSE "failed"

\* processPost, "Determine overall status"
OverallStatus(platform, twitterSuccess, linkedinSuccess) ==
  IF platform = "twitter" /\ twitterSuccess THEN "posted"
  ELSE IF platform = "linkedin" /\ linkedinSuccess THEN "posted"
  ELSE IF platform = "both" /\ (twitterSuccess \/ linkedinSuccess) THEN "posted"
  ELSE "failed"

\* Outcome with a retry: a post for which no publish call could be made
\* (no usable credential) is left pending for the next run
Outcome_RetriesUnauthorized(row, platform, l, t) ==
  LET status == OverallStatus(platform, l.twitterSuccess, l.linkedinSuccess)
      gated == /\ l.twitterError \in {NULL, Some("Twitter not authorized")}
               /\ l.linkedinError \in {NULL, Some("LinkedIn not authorized"),
                                       Some("LinkedIn token expired")}
  IN
  [ row EXCEPT
      !.status = IF status = "failed" /\ gated THEN "pending" ELSE status,
      !.twitterPostId = l.twitterPostId,
      !.twitterPostedAt = IF l.twitterSuccess THEN Some(t) ELSE NULL,
      !.twitterError = l.twitterError,
      !.linkedinPostId = l.linkedinPostId,
      !.linkedinPostedAt = IF l.linkedinSuccess THEN Some(t) ELSE NULL,
      !.linkedinError = l.linkedinError ]

\* Outcome keeping the error messages of failed posts only
Outcome_ErrorsOnlyWhenFailed(row, platform, l, t) ==
  LET status == OverallStatus(platform, l.twitterSuccess, l.linkedinSuccess) IN
  [ row EXCEPT
      !.status = status,
      !.twitterPostId = l.twitterPostId,
      !.twitterPostedAt = IF l.twitterSuccess THEN Some(t) ELSE NULL,
      !.twitterError = IF status = "failed" THEN l.twitterError ELSE NULL,
      !.linkedinPostId = l.linkedinPostId,
      !.linkedinPostedAt = IF l.linkedinSuccess THEN Some(t) ELSE NULL,
      !.linkedinError = IF status = "failed" THEN l.linkedinError ELSE NULL ]

\* Outcome keeping the first error message only
Outcome_FirstErrorOnly(row, platform, l, t) ==
  [ row EXCEPT
      !.status = OverallStatus(platform, l.twitterSuccess, l.linkedinSuccess),
      !.twitterPostId = l.twitterPostId,
      !.twitterPostedAt = IF l.twitterSuccess THEN Some(t) ELSE NULL,
      !.twitterError = l.twitterError,
      !.linkedinPostId = l.linkedinPostId,
      !.linkedinPostedAt = IF l.linkedinSuccess THEN Some(t) ELSE NULL,
      !.linkedinError = IF l.twitterError = NULL THEN l.linkedinError ELSE NULL ]

\* Outcome stamping the posted-at times of every platform at each update
Outcome_AlwaysStampsTime(row, platform, l, t) ==
  [ row EXCEPT
      !.status = OverallStatus(platform, l.twitterSuccess, l.linkedinSuccess),
      !.twitterPostId = l.twitterPostId,
      !.twitterPostedAt = Some(t),
      !.twitterError = l.twitterError,
      !.linkedinPostId = l.linkedinPostId,
      !.linkedinPostedAt = Some(t),
      !.linkedinError = l.linkedinError ]

\* Outcome writing a synthetic error for the platform the post does not
\* name
Outcome_MarksUnrequested(row, platform, l, t) ==
  [ row EXCEPT
      !.status = OverallStatus(platform, l.twitterSuccess, l.linkedinSuccess),
      !.twitterPostId = l.twitterPostId,
      !.twitterPostedAt = IF l.twitterSuccess THEN Some(t) ELSE NULL,
      !.twitterError = IF platform = "linkedin" THEN Some("not requested")
                       ELSE l.twitterError,
      !.linkedinPostId = l.linkedinPostId,
      !.linkedinPostedAt = IF l.linkedinSuccess THEN Some(t) ELSE NULL,
      !.linkedinError = IF platform = "twitter" THEN Some("not requested")
                        ELSE l.linkedinError ]

\* the data of the prisma.scheduledPost.update of processPost
Outcome(row, platform, l, t) ==
  [ row EXCEPT
      !.status = OverallStatus(platform, l.twitterSuccess, l.linkedinSuccess),
      !.twitterPostId = l.twitterPostId,
      !.twitterPostedAt = IF l.twitterSuccess THEN Some(t) ELSE NULL,
      !.twitterError = l.twitterError,
      !.linkedinPostId = l.linkedinPostId,
      !.linkedinPostedAt = IF l.linkedinSuccess THEN Some(t) ELSE NULL,
      !.linkedinError = l.linkedinError ]

\* Continue with the publish errors of a post rethrown after its update:
\* the run ends at the first post that failed on a platform
Continue_StopsOnFailure(t) ==
  IF idx[t] < Len(batch[t]) /\ cur[t].twitterError = NULL /\ cur[t].linkedinError = NULL
  THEN /\ idx' = [idx EXCEPT ![t] = @ + 1]
       /\ pc' = [pc EXCEPT ![t] = "twitter"]
       /\ cur' = [cur EXCEPT ![t] = InitLocals]
       /\ UNCHANGED batch
  ELSE Return(t)

\* Continue going back to the LinkedIn block of the post just written
\* instead of moving on to the next post
Continue_RepublishesLinkedIn(t) ==
  IF idx[t] < Len(batch[t])
  THEN /\ pc' = [pc EXCEPT ![t] = "linkedin"]
       /\ UNCHANGED <<batch, idx, cur>>
  ELSE Return(t)

\* Continue with a loop that does not move on: the post just processed
\* is processed again
Continue_SamePostAgain(t) ==
  IF idx[t] < Len(batch[t])
  THEN /\ pc' = [pc EXCEPT ![t] = "twitter"]
       /\ cur' = [cur EXCEPT ![t] = InitLocals]
       /\ UNCHANGED <<batch, idx>>
  ELSE Return(t)

\* the for loop of processDuePosts moving past the current post
Continue(t) ==
  IF idx[t] < Len(batch[t])
  THEN /\ idx' = [idx EXCEPT ![t] = @ + 1]
       /\ pc' = [pc EXCEPT ![t] = "twitter"]
       /\ cur' = [cur EXCEPT ![t] = InitLocals]
       /\ UNCHANGED batch
  ELSE Return(t)

\* whether processPost has a generation request to update
HasGenerationUpdate(post, l) ==
  post.generationRequestId # NULL /\ (l.twitterSuccess \/ l.linkedinSuccess)

\* processPost, "Update the scheduled post"
UpdatePost(t) ==
  /\ pc[t] = "update"
  /\ LET post == Post(t) IN
     /\ posts' = [posts EXCEPT ![post.id] = Outcome(@, post.platform, cur[t], now)]
     /\ IF HasGenerationUpdate(post, cur[t])
        THEN /\ pc' = [pc EXCEPT ![t] = "generation"]
             /\ UNCHANGED <<batch, idx, cur>>
        ELSE Continue(t)
  /\ UNCHANGED <<now, users, gens, started, req, calls, oauthVars>>

\* GenerationData marking both platforms whenever the record is written
GenerationData_MarksBoth(row, l) ==
  [ postedToTwitter  |-> TRUE,
    twitterPostId    |-> IF l.twitterSuccess THEN l.twitterPostId ELSE row.twitterPostId,
    postedToLinkedIn |-> TRUE,
    linkedinPostId   |-> IF l.linkedinSuccess THEN l.linkedinPostId ELSE row.linkedinPostId ]

\* the data of the prisma.generationRequest.update of processPost
GenerationData(row, l) ==
  [ postedToTwitter  |-> IF l.twitterSuccess THEN TRUE ELSE row.postedToTwitter,
    twitterPostId    |-> IF l.twitterSuccess THEN l.twitterPostId ELSE row.twitterPostId,
    postedToLinkedIn |-> IF l.linkedinSuccess THEN TRUE ELSE row.postedToLinkedIn,
    linkedinPostId   |-> IF l.linkedinSuccess THEN l.linkedinPostId ELSE row.linkedinPostId ]

\* UpdateGeneration without the catch of processDuePosts: the error of the
\* failed update leaves processDuePosts and ends the server process, and
\* with it the interval timer; no further run is started
UpdateGeneration_ErrorEscapes(t) ==
  /\ pc[t] = "generation"
  /\ LET g == Post(t).generationRequestId[1] IN
     IF g \in GenRows
     THEN /\ gens' = [gens EXCEPT ![g] = GenerationData(@, cur[t])]
          /\ Continue(t)
          /\ UNCHANGED started
     ELSE /\ Return(t)
          /\ started' = MaxTicks
          /\ UNCHANGED gens
  /\ UNCHANGED <<now, users, posts, req, calls, oauthVars>>

\* processPost, "Update the generation request if it exists".  The update
\* of a row that does not exist throws; processPost has no catch, so the
\* error leaves the for loop and lands in the catch of processDuePosts
UpdateGeneration(t) ==
  /\ pc[t] = "generation"
  /\ LET g == Post(t).generationRequestId[1] IN
     IF g \in GenRows
     THEN /\ gens' = [gens EXCEPT ![g] = GenerationData(@, cur[t])]
          /\ Continue(t)
     ELSE /\ Return(t)
          /\ UNCHANGED gens
  /\ UNCHANGED <<now, users, posts, started, req, calls, oauthVars>>

\* ------------------------------------------------------- specifications
\* the requests to POST /: the well-formed ones (u1 schedules for every
\* platform, and Twitter posts that refer to a generation request; u2,
\* who has connected nothing, schedules for both platforms), and one
\* request per way of being malformed
ScheduleInputs ==
  { [user |-> "u1", content |-> "hello", platform |-> p,
     scheduledFor |-> DateAt(t), gen |-> NULL] : p \in Platforms, t \in Times }
  \cup { [user |-> "u1", content |-> "hello", platform |-> "twitter",
          scheduledFor |-> DateAt(t), gen |-> g] : t \in Times, g \in GenRefs }
  \cup { [user |-> "u2", content |-> "hello", platform |-> "both",
          scheduledFor |-> DateAt(t), gen |-> NULL] : t \in Times }
  \cup { [user |-> "u1", content |-> c, platform |-> "twitter",
          scheduledFor |-> DateAt(MaxTime), gen |-> NULL] : c \in ContentInputs }
  \cup { [user |-> "u1", content |-> "hello", platform |-> p,
          scheduledFor |-> DateAt(MaxTime), gen |-> NULL] : p \in PlatformInputs }
  \cup { [user |-> "u1", content |-> "hello", platform |-> "twitter",
          scheduledFor |-> sf, gen |-> NULL] : sf \in DateInputs }

ScheduleRequests ==
  \E r \in ScheduleInputs :
    Schedule(r.user, r.content, r.platform, r.scheduledFor, r.gen)

PostRequests ==
  \/ \E u \in Users, id \in 1..MaxPosts : CancelFind(u, id)
  \/ CancelWrite
  \/ \E u \in Users, id \in 1..MaxPosts, sf \in DateInputs : RescheduleFind(u, id, sf)
  \/ RescheduleWrite

Dispatch ==
  \/ \E t \in Ticks : PostToTwitter(t)
  \/ \E t \in Ticks : PostToLinkedIn(t)
  \/ \E t \in Ticks : UpdatePost(t)
  \/ \E t \in Ticks : UpdateGeneration(t)

\* startScheduler with runs that end before the next one starts (the
\* interval is 60 seconds): the normal operation of one server process
RunAfterPrevious(t) ==
  /\ \A s \in Ticks : pc[s] = "idle"
  /\ StartTick(t)

Next ==
  \/ Advance
  \/ ScheduleRequests
  \/ PostRequests
  \/ Dispatch
  \/ \E t \in Ticks : RunAfterPrevious(t)

Spec == Init /\ [][Next]_vars

\* startScheduler as written: setInterval starts processDuePosts without
\* awaiting the previous run, and the immediate run is not awaited either,
\* so a run that takes longer than the interval overlaps the next one
\* (checked with a store of MaxOverlapPosts rows)
NextOverlap ==
  \/ Advance
  \/ Len(posts) < MaxOverlapPosts /\ ScheduleRequests
  \/ PostRequests
  \/ Dispatch
  \/ \E t \in Ticks : StartTick(t)

SpecOverlap == Init /\ [][NextOverlap]_vars

TypeOK ==
  /\ now \in Times
  /\ Len(posts) <= MaxPosts
  /\ \A t \in Ticks : pc[t] \in {"idle", "twitter", "linkedin", "update", "generation"}
  /\ \A t \in Ticks : pc[t] # "idle" => idx[t] \in DOMAIN batch[t]

\* ------------------------------------------------------------ properties
Terminal == {"posted", "failed", "cancelled"}

\* execution t of processDuePosts returns in this step
TickEnds(t) == pc[t] # "idle" /\ pc'[t] = "idle"

\* execution t performs the scheduledPost.update of processPost in this step
UpdateStep(t) == pc[t] = "update" /\ pc'[t] # "update"

\* a step of the dispatcher or of POST /, as opposed to the read or the
\* write of a cancel or reschedule request
NoRequestStep == req' = req

\* C1: when a run of processDuePosts returns, no post of the batch it read
\* as due is still pending (each is posted or failed), whatever happened to
\* the other posts of the batch.
C1_NoDuePostLeftPending ==
  [][\A t \in Ticks :
       TickEnds(t) =>
         \A i \in DOMAIN batch[t] : posts'[batch[t][i].id].status # "pending"]_vars

\* C2: with runs of processDuePosts that follow one another, at most one
\* publish call is made per post and platform.
C2_AtMostOnePublish ==
  \A p \in PostIds : calls[p].twitter <= 1 /\ calls[p].linkedin <= 1

\* a post published by a run at time 2 is still published once after a
\* later run, at time 3, has processed another post
C2_Witness ==
  \E p, q \in PostIds :
    /\ posts[p].twitterPostedAt = Some(2)
    /\ posts[q].twitterPostedAt = Some(3)
    /\ calls[p].twitter = 1

\* C3: the dispatcher never touches a post whose stored status is
\* terminal: no step of processPost publishes it or changes its row.
C3_TerminalNeverTouched ==
  [][\A p \in PostIds :
       (posts[p].status \in Terminal /\ NoRequestStep) =>
         (posts'[p] = posts[p] /\ calls'[p] = calls[p])]_vars

\* C4: a cancel request for a post that is posted or failed is rejected
\* with an error.
C4_CancelRejectsProcessed ==
  \A u \in Users, id \in PostIds :
    (Found(u, id) /\ posts[id].status \in {"posted", "failed"}) =>
      CancelCode(u, id) = 400

\* C5: no publish call is made for a post after a cancel request for it
\* has returned success (the stored status is cancelled only by such a
\* request).
C5_NoPublishAfterCancel ==
  [][\A p \in PostIds :
       calls'[p] # calls[p] => posts[p].status # "cancelled"]_vars

\* the request bodies that POST / must refuse at time t
Malformed(content, platform, sf, t) ==
  \/ content = ""
  \/ platform = ""
  \/ sf.kind = "missing"
  \/ platform \notin Platforms
  \/ sf.kind = "date" /\ sf.t <= t

\* C6: POST / answers 400 to a body without content, platform or
\* scheduledFor, with a platform other than twitter, linkedin, both, or with
\* a scheduledFor that is not later than now; every stored row has a
\* content and one of the three platforms, and a row enters the store only
\* with a scheduledFor later than the time of the request.
C6_ScheduleValidation ==
  /\ [](\A c \in ContentInputs, pf \in PlatformInputs, sf \in DateInputs :
          Malformed(c, pf, sf, now) => ScheduleCode(c, pf, sf, now) = 400)
  /\ [](\A p \in PostIds : posts[p].platform \in Platforms /\ posts[p].content # "")
  /\ [][Len(posts') > Len(posts) =>
          /\ Len(posts') = Len(posts) + 1
          /\ posts'[Len(posts')].scheduledFor > now
          /\ posts'[Len(posts')].status = "pending"]_vars

\* a row was stored, and a request for the current instant is refused
C6_Witness ==
  /\ \E p \in PostIds : posts[p].status = "pending" /\ posts[p].scheduledFor > now
  /\ now > 1
  /\ ScheduleCode("hello", "twitter", DateAt(now), now) = 400

\* C7: the status written by processPost is posted exactly when the
\* platform is twitter and Twitter succeeded, or linkedin and LinkedIn
\* succeeded, or both and at least one succeeded; otherwise it is failed.
C7_AggregationRule ==
  [][\A t \in Ticks :
       UpdateStep(t) =>
         LET post == Post(t)
             tw == cur[t].twitterSuccess
             li == cur[t].linkedinSuccess
             ok == \/ post.platform = "twitter" /\ tw
                   \/ post.platform = "linkedin" /\ li
                   \/ post.platform = "both" /\ (tw \/ li)
         IN posts'[post.id].status = IF ok THEN "posted" ELSE "failed"]_vars

\* a LinkedIn post that was posted and a Twitter post that failed
C7_Witness ==
  \E p, q \in PostIds :
    /\ posts[p].platform = "linkedin" /\ posts[p].status = "posted"
    /\ posts[q].platform = "twitter" /\ posts[q].status = "failed"

\* C8: for platform both with exactly one publish succeeding, the row is
\* written posted, with the id of the platform that succeeded and with the
\* error of the platform that failed, and of that one only.
C8_PartialSuccess ==
  [][\A t \in Ticks :
       (UpdateStep(t) /\ Post(t).platform = "both"
          /\ cur[t].twitterSuccess # cur[t].linkedinSuccess) =>
         LET row == posts'[Post(t).id] IN
         /\ row.status = "posted"
         /\ cur[t].twitterSuccess =>
              (row.twitterPostId # NULL /\ row.twitterError = NULL
                 /\ row.linkedinError # NULL /\ row.linkedinPostId = NULL)
         /\ cur[t].linkedinSuccess =>
              (row.linkedinPostId # NULL /\ row.linkedinError = NULL
                 /\ row.twitterError # NULL /\ row.twitterPostId = NULL)]_vars

\* Twitter succeeded and LinkedIn failed for a post to both
C8_Witness ==
  \E p \in PostIds :
    /\ posts[p].platform = "both" /\ posts[p].status = "posted"
    /\ posts[p].twitterPostId # NULL /\ posts[p].twitterError = NULL
    /\ posts[p].linkedinPostId = NULL /\ posts[p].linkedinError # NULL

\* C9: for platform both with both publishes failing, the row is written
\* failed with both error fields set.
C9_TotalFailure ==
  [][\A t \in Ticks :
       (UpdateStep(t) /\ Post(t).platform = "both"
          /\ ~cur[t].twitterSuccess /\ ~cur[t].linkedinSuccess) =>
         LET row == posts'[Post(t).id] IN
         /\ row.status = "failed"
         /\ row.twitterError # NULL
         /\ row.linkedinError # NULL]_vars

\* a thrown Twitter error and an expired LinkedIn token for a post to both
C9_Witness ==
  \E p \in PostIds :
    /\ posts[p].platform = "both" /\ posts[p].status = "failed"
    /\ posts[p].twitterError = Some("twitter api error")
    /\ posts[p].linkedinError = Some("LinkedIn token expired")

\* the LinkedIn credential gate of processPost passes for this post
LinkedInUsable(post, t) ==
  post.user.linkedinAccessToken # NULL /\ ~LinkedInExpired(post.user, t)

\* C10: for platform both, a Twitter failure is followed by the LinkedIn
\* block for the same post, which makes its publish call whenever the
\* LinkedIn credential is usable; and a run leaves its batch unfinished
\* only from the generation-request update of a post that was published,
\* never because a publish failed.
C10_FailureIsolation ==
  [][\A t \in Ticks :
       /\ (pc[t] = "twitter" /\ pc'[t] # "twitter") =>
            (pc'[t] = "linkedin" /\ batch'[t] = batch[t] /\ idx'[t] = idx[t])
       /\ (pc[t] = "linkedin" /\ pc'[t] # "linkedin" /\ Post(t).platform = "both"
             /\ cur[t].twitterError # NULL /\ LinkedInUsable(Post(t), now)) =>
            calls'[Post(t).id].linkedin = calls[Post(t).id].linkedin + 1
       /\ (TickEnds(t) /\ idx[t] < Len(batch[t])) =>
            (pc[t] = "generation"
               /\ (cur[t].twitterSuccess \/ cur[t].linkedinSuccess))]_vars

\* the second post of a batch, to both platforms, has failed on Twitter and
\* succeeded on LinkedIn, after the first post of the batch has failed
C10_Witness ==
  \E t \in Ticks :
    /\ pc[t] = "update" /\ idx[t] = 2
    /\ posts[batch[t][1].id].status = "failed"
    /\ Post(t).platform = "both"
    /\ cur[t].twitterError # NULL /\ cur[t].linkedinSuccess

\* the post names Twitter, resp. LinkedIn
TwitterRequested(post)  == post.platform \in {"twitter", "both"}
LinkedInRequested(post) == post.platform \in {"linkedin", "both"}

\* the stored Twitter credential of the post's user is incomplete
TwitterCredentialMissing(post) ==
  post.user.twitterAccessToken = NULL \/ post.user.twitterAccessSecret = NULL

\* the stored LinkedIn credential of the post's user is absent, or its
\* expiry is at or before time t
LinkedInCredentialUnusable(post, t) ==
  \/ post.user.linkedinAccessToken = NULL
  \/ post.user.linkedinTokenExpiry # NULL /\ post.user.linkedinTokenExpiry[1] <= t

\* C11: when the credential of a requested platform is missing (Twitter:
\* token or secret; LinkedIn: token) or, for LinkedIn, expired at or before
\* now, the block of that platform makes no publish call, leaves a
\* non-null error and no success for the platform, and processPost goes on
\* to its next block (nothing is thrown); the row is then written with
\* that error, without id or date for the platform, and failed when the
\* platform is the only one requested.
C11_CredentialGate ==
  [][\A t \in Ticks :
       /\ (pc[t] = "twitter" /\ pc'[t] # "twitter" /\ TwitterRequested(Post(t))
             /\ TwitterCredentialMissing(Post(t))) =>
            /\ calls' = calls
            /\ cur'[t].twitterError # NULL
            /\ ~cur'[t].twitterSuccess /\ cur'[t].twitterPostId = NULL
            /\ pc'[t] = "linkedin" /\ batch'[t] = batch[t] /\ idx'[t] = idx[t]
       /\ (pc[t] = "linkedin" /\ pc'[t] # "linkedin" /\ LinkedInRequested(Post(t))
             /\ LinkedInCredentialUnusable(Post(t), now)) =>
            /\ calls' = calls
            /\ cur'[t].linkedinError # NULL
            /\ ~cur'[t].linkedinSuccess /\ cur'[t].linkedinPostId = NULL
            /\ pc'[t] = "update" /\ batch'[t] = batch[t] /\ idx'[t] = idx[t]
       /\ (UpdateStep(t) /\ TwitterRequested(Post(t))
             /\ TwitterCredentialMissing(Post(t))) =>
            LET row == posts'[Post(t).id] IN
            /\ row.twitterError # NULL
            /\ row.twitterPostId = NULL /\ row.twitterPostedAt = NULL
            /\ Post(t).platform = "twitter" => row.status = "failed"
       /\ (UpdateStep(t) /\ LinkedInRequested(Post(t))
             /\ LinkedInCredentialUnusable(Post(t), now)) =>
            LET row == posts'[Post(t).id] IN
            /\ row.linkedinError # NULL
            /\ row.linkedinPostId = NULL /\ row.linkedinPostedAt = NULL
            /\ Post(t).platform = "linkedin" => row.status = "failed"]_vars

\* a post to both platforms of a user who has connected neither, and a
\* LinkedIn post of a user whose token has expired, were both written
\* failed without any publish call
C11_Witness ==
  \E p, q \in PostIds :
    /\ posts[p].userId = "u2" /\ posts[p].platform = "both"
    /\ posts[p].status = "failed"
    /\ posts[p].twitterError # NULL /\ posts[p].linkedinError # NULL
    /\ calls[p].twitter = 0 /\ calls[p].linkedin = 0
    /\ posts[q].userId = "u1" /\ posts[q].platform = "linkedin"
    /\ posts[q].status = "failed"
    /\ posts[q].linkedinError = Some("LinkedIn token expired")
    /\ calls[q].linkedin = 0

\* C12: a platform that the post does not name is untouched: for a post
\* to twitter no LinkedIn publish call is ever made and its linkedinPostId,
\* linkedinPostedAt and linkedinError are null, in the row and in the
\* locals of a processPost working on it; symmetrically for a post to
\* linkedin and Twitter.
C12_UnrequestedPlatformUntouched ==
  /\ \A p \in PostIds :
       /\ posts[p].platform = "twitter" =>
            /\ calls[p].linkedin = 0
            /\ posts[p].linkedinPostId = NULL
            /\ posts[p].linkedinPostedAt = NULL
            /\ posts[p].linkedinError = NULL
       /\ posts[p].platform = "linkedin" =>
            /\ calls[p].twitter = 0
            /\ posts[p].twitterPostId = NULL
            /\ posts[p].twitterPostedAt = NULL
            /\ posts[p].twitterError = NULL
  /\ \A t \in Ticks :
       pc[t] # "idle" =>
         /\ ~LinkedInRequested(Post(t)) =>
              (~cur[t].linkedinSuccess /\ cur[t].linkedinError = NULL
                 /\ cur[t].linkedinPostId = NULL)
         /\ ~TwitterRequested(Post(t)) =>
              (~cur[t].twitterSuccess /\ cur[t].twitterError = NULL
                 /\ cur[t].twitterPostId = NULL)

\* a Twitter post and a LinkedIn post have both been published
C12_Witness ==
  \E p, q \in PostIds :
    /\ posts[p].platform = "twitter" /\ posts[p].status = "posted"
    /\ posts[p].twitterPostId # NULL /\ calls[p].twitter = 1
    /\ posts[q].platform = "linkedin" /\ posts[q].status = "posted"
    /\ posts[q].linkedinPostId # NULL /\ calls[q].linkedin = 1

\* execution t leaves the processPost of its current post in this step:
\* it moves to the next post of its batch, or returns
LeavesPost(t) ==
  \/ pc'[t] = "twitter" /\ idx'[t] = idx[t] + 1 /\ batch'[t] = batch[t]
  \/ pc'[t] = "idle"

\* C13: a post that a run of processDuePosts processes is written exactly
\* once by that run: the rows of a batch are distinct, the two publish
\* blocks and the generation-request update write no row, the update step
\* between them writes the row of the current post and no other, in one
\* write that carries the status and the six outcome fields taken from the
\* locals (whatever number of platforms was attempted), and after it the
\* run never comes back to the post.
C13_ExactlyOneUpdate ==
  [][\A t \in Ticks :
       /\ \A i, j \in DOMAIN batch[t] : i # j => batch[t][i].id # batch[t][j].id
       /\ (pc[t] = "twitter" /\ pc'[t] # "twitter") =>
            (posts' = posts /\ pc'[t] = "linkedin" /\ idx'[t] = idx[t])
       /\ (pc[t] = "linkedin" /\ pc'[t] # "linkedin") =>
            (posts' = posts /\ pc'[t] = "update" /\ idx'[t] = idx[t])
       /\ UpdateStep(t) =>
            LET id == Post(t).id
                l == cur[t]
                row == posts'[id]
            IN /\ \A p \in PostIds : p # id => posts'[p] = posts[p]
               /\ row.status \in {"posted", "failed"}
               /\ row.twitterPostId = l.twitterPostId
               /\ row.twitterError = l.twitterError
               /\ row.twitterPostedAt = (IF l.twitterSuccess THEN Some(now) ELSE NULL)
               /\ row.linkedinPostId = l.linkedinPostId
               /\ row.linkedinError = l.linkedinError
               /\ row.linkedinPostedAt = (IF l.linkedinSuccess THEN Some(now) ELSE NULL)
               /\ row.userId = posts[id].userId /\ row.content = posts[id].content
               /\ row.platform = posts[id].platform
               /\ row.scheduledFor = posts[id].scheduledFor
               /\ row.generationRequestId = posts[id].generationRequestId
               /\ \/ pc'[t] = "generation" /\ idx'[t] = idx[t] /\ batch'[t] = batch[t]
                  \/ LeavesPost(t)
       /\ (pc[t] = "generation" /\ pc'[t] # "generation") =>
            (posts' = posts /\ LeavesPost(t))]_vars

\* one run has written a post for which no publish call was made and
\* then a post for which two were made
C13_Witness ==
  \E t \in Ticks :
    /\ pc[t] = "idle" /\ started = 1
    /\ \E p, q \in PostIds :
         /\ posts[p].platform = "both" /\ posts[p].status = "failed"
         /\ calls[p].twitter = 0 /\ calls[p].linkedin = 0
         /\ posts[q].platform = "both" /\ posts[q].status = "posted"
         /\ calls[q].twitter = 1 /\ calls[q].linkedin = 1

\* C14: scheduledFor of a row changes only in a step in which the row is
\* pending, and only to a time later than now.
C14_RescheduleOnlyPending ==
  [][\A p \in PostIds :
       posts'[p].scheduledFor # posts[p].scheduledFor =>
         (posts[p].status = "pending" /\ posts'[p].scheduledFor > now)]_vars

\* the generation-request update of execution t throws in this step (the
\* row it names does not exist)
GenerationUpdateThrows(t) ==
  /\ pc[t] = "generation" /\ pc'[t] # "generation"
  /\ Post(t).generationRequestId[1] \notin GenRows

\* C15: when a store write fails while a post is processed, the run goes
\* on with the next post of its batch.
C15_ContinuesAfterStoreError ==
  [][\A t \in Ticks :
       (GenerationUpdateThrows(t) /\ idx[t] < Len(batch[t])) =>
         (pc'[t] = "twitter" /\ idx'[t] = idx[t] + 1 /\ batch'[t] = batch[t])]_vars

\* no run of processDuePosts is in progress
AllIdle == \A t \in Ticks : pc[t] = "idle"

\* C16: no failure inside a run stops the loop.  A failed publish does not
\* even leave processPost (the run goes on to the next block); a store
\* call that throws ends the run by a normal return (the error is caught
\* in processDuePosts) and leaves the timer as it was; and whenever no run
\* is in progress the next run can start.
C16_LoopSurvivesFailure ==
  /\ [][\A t \in Ticks :
          /\ (pc[t] \in {"twitter", "linkedin"} /\ pc'[t] # pc[t]) =>
               pc'[t] \in {"linkedin", "update"}
          /\ GenerationUpdateThrows(t) =>
               (pc'[t] = "idle" /\ started' = started)]_vars
  /\ []((AllIdle /\ started < MaxTicks) => ENABLED (\E t \in Ticks : RunAfterPrevious(t)))

\* a run ended by the throwing generation-request update of a post it had
\* published at time 2, and the next run has published another post at
\* time 3
C16_Witness ==
  \E p, q \in PostIds :
    /\ posts[p].generationRequestId = Some("gX") /\ posts[p].twitterPostedAt = Some(2)
    /\ posts[q].twitterPostedAt = Some(3)
    /\ started = 2 /\ AllIdle

\* ---------------------------------------------------------------- liveness
\* processDuePosts up to the first await of its loop, started by the
\* interval timer, which never stops: the runs are not counted.  Runs end
\* before the next one starts, as in Spec
TickFires(t) ==
  /\ AllIdle
  /\ t = 1
  /\ IF DuePosts(now) = {}
     THEN UNCHANGED <<pc, batch>>
     ELSE /\ \E q \in Orders(DuePosts(now)) :
               batch' = [batch EXCEPT ![t] = [i \in DOMAIN q |-> Snapshot(q[i])]]
          /\ pc' = [pc EXCEPT ![t] = "twitter"]
  /\ UNCHANGED <<now, users, posts, gens, idx, cur, started, req, calls, oauthVars>>

\* the requests to POST / under SpecLive: a Twitter post that
\* refers to a generation request that does not exist, and the posts to
\* both platforms of a user who has connected them and of one who has not
LiveInputs ==
  { r \in ScheduleInputs :
      /\ r.content = "hello" /\ r.scheduledFor.kind = "date"
      /\ \/ r.platform = "twitter" /\ r.gen = Some("gX")
         \/ r.platform = "both" }

LiveScheduleRequests ==
  \E r \in LiveInputs :
    Schedule(r.user, r.content, r.platform, r.scheduledFor, r.gen)

NextLive ==
  \/ Advance
  \/ LiveScheduleRequests
  \/ PostRequests
  \/ Dispatch
  \/ \E t \in Ticks : TickFires(t)

\* the timer keeps firing (setInterval), and every publish call and store
\* call of a run returns; nothing is assumed of the users' requests or of
\* the clock
SpecLive ==
  /\ Init
  /\ [][NextLive]_vars
  /\ WF_vars(\E t \in Ticks : TickFires(t))
  /\ WF_vars(Dispatch)

\* post p is in the store, pending, and its time has come
PendingAndDue(p) ==
  p \in PostIds /\ posts[p].status = "pending" /\ posts[p].scheduledFor <= now

Listed(q) == { q[i] : i \in DOMAIN q }

\* C18: GET / answers with exactly the posts of the requesting user, those
\* of the given status only when the query names a status, and so never
\* with a post of another user.
C18_ListOwnPosts ==
  \A u \in Users, st \in StatusInputs :
    /\ List(u, st) # {}
    /\ \A q \in List(u, st) :
         /\ Listed(q) = { p \in PostIds :
                            posts[p].userId = u /\ (st = "" \/ posts[p].status = st) }
         /\ \A i \in DOMAIN q : posts[q[i]].userId = u

\* the store holds a processed post of u1 and a post of u2: u1 is
\* answered with the one post, and with none when asking for pending posts
C18_Witness ==
  /\ \E p, r \in PostIds :
       /\ posts[p].userId = "u1" /\ posts[p].status = "posted"
       /\ posts[r].userId = "u2"
  /\ \A q \in List("u1", "") : Len(q) = 1
  /\ \A q \in List("u1", "posted") : Len(q) = 1
  /\ List("u1", "pending") = {<<>>}

\* user u is not the owner of post id
NotOwner(u, id) == id \in PostIds /\ posts[id].userId # u

C20_SecondRunSelectsSamePost ==
  /\ [](\A s, t \in Ticks :
          (s # t /\ pc[s] # "idle" /\ PendingAndDue(Post(s).id) /\ ENABLED StartTick(t)) =>
            ENABLED (StartTick(t) /\ pc'[t] = "twitter"
                       /\ \E i \in DOMAIN batch'[t] : batch'[t][i].id = Post(s).id))
  /\ [][\A t \in Ticks :
          /\ (pc[t] = "twitter" /\ pc'[t] # "twitter" /\ TwitterRequested(Post(t))
                /\ ~TwitterCredentialMissing(Post(t))) =>
               calls'[Post(t).id].twitter = calls[Post(t).id].twitter + 1
          /\ (pc[t] = "linkedin" /\ pc'[t] # "linkedin" /\ LinkedInRequested(Post(t))
                /\ ~LinkedInCredentialUnusable(Post(t), now)) =>
               calls'[Post(t).id].linkedin = calls[Post(t).id].linkedin + 1]_vars

\* two runs in progress hold the same post, and each has published it to
\* Twitter: two publish calls were made for the post
C20_Witness ==
  /\ pc[1] # "idle" /\ pc[2] # "idle"
  /\ Post(1).id = Post(2).id
  /\ cur[1].twitterSuccess /\ cur[2].twitterSuccess
  /\ calls[Post(1).id].twitter = 2

\* the rows that execution t holds in its batch
BatchIds(t) == { batch[t][i].id : i \in DOMAIN batch[t] }

\* execution t of processDuePosts takes a step of its loop
DispatchStep(t) == pc[t] # "idle" /\ pc'[t] # pc[t]

\* C21: the query of a run selects exactly the rows that are pending with
\* scheduledFor <= now at that moment, and the run makes publish calls and
\* store writes for rows of its batch only: a pending post that was not
\* yet due, and a post that was posted, failed or cancelled, at the time
\* of the query gets nothing from that run.
C21_SelectsExactlyDue ==
  [][\A t \in Ticks :
       /\ (pc[t] = "idle" /\ pc'[t] # "idle") =>
            { batch'[t][i].id : i \in DOMAIN batch'[t] } =
              { p \in PostIds : posts[p].status = "pending" /\ posts[p].scheduledFor <= now }
       /\ (started' # started /\ pc' = pc) =>
            { p \in PostIds : posts[p].status = "pending" /\ posts[p].scheduledFor <= now } = {}
       /\ DispatchStep(t) =>
            \A p \in PostIds \ BatchIds(t) :
              posts'[p] = posts[p] /\ calls'[p] = calls[p]]_vars

\* a run has published the post that was due and has left alone the post
\* that is due later
C21_Witness ==
  /\ AllIdle /\ started = 1 /\ now = 2
  /\ \E p, q \in PostIds :
       /\ posts[p].scheduledFor = 2 /\ posts[p].status = "posted"
       /\ posts[q].scheduledFor = 3 /\ posts[q].status = "pending"
       /\ calls[q].twitter = 0 /\ calls[q].linkedin = 0

\* C22: a run processes its posts one after another, each in the order
\* Twitter block, LinkedIn block, store update (then the generation-request
\* update, if any): a Twitter call is made only in the Twitter block of
\* the current post and a LinkedIn call only in its LinkedIn block, the
\* dispatcher writes a row only in the update step of the current post,
\* which follows both blocks, and the run moves to the next post only
\* from the update or the generation-request update of the current one,
\* starting again at the Twitter block with fresh locals.
C22_EventOrder ==
  [][/\ \A p \in PostIds :
          /\ calls'[p].twitter # calls[p].twitter =>
               \E t \in Ticks : pc[t] = "twitter" /\ pc'[t] = "linkedin" /\ Post(t).id = p
          /\ calls'[p].linkedin # calls[p].linkedin =>
               \E t \in Ticks : pc[t] = "linkedin" /\ pc'[t] = "update" /\ Post(t).id = p
          /\ (posts'[p] # posts[p] /\ NoRequestStep) =>
               \E t \in Ticks : pc[t] = "update" /\ Post(t).id = p
     /\ \A t \in Ticks :
          /\ (pc[t] = "twitter" /\ DispatchStep(t)) =>
               (pc'[t] = "linkedin" /\ idx'[t] = idx[t] /\ batch'[t] = batch[t])
          /\ (pc[t] = "linkedin" /\ DispatchStep(t)) =>
               (pc'[t] = "update" /\ idx'[t] = idx[t] /\ batch'[t] = batch[t])
          /\ (pc[t] = "update" /\ DispatchStep(t)) =>
               \/ pc'[t] = "generation" /\ idx'[t] = idx[t] /\ batch'[t] = batch[t]
               \/ pc'[t] = "twitter" /\ idx'[t] = idx[t] + 1 /\ cur'[t] = InitLocals
               \/ pc'[t] = "idle"
          /\ (pc[t] = "generation" /\ DispatchStep(t)) =>
               \/ pc'[t] = "twitter" /\ idx'[t] = idx[t] + 1 /\ cur'[t] = InitLocals
               \/ pc'[t] = "idle"]_vars

\* a run is in the LinkedIn block of the second post of its batch, after
\* both publish calls and the update of the first
C22_Witness ==
  \E t \in Ticks :
    /\ pc[t] = "linkedin" /\ idx[t] = 2
    /\ calls[batch[t][1].id].twitter = 1 /\ calls[batch[t][1].id].linkedin = 1
    /\ posts[batch[t][1].id].status = "posted"
    /\ calls[Post(t).id].twitter = 1 /\ calls[Post(t).id].linkedin = 0
    /\ posts[Post(t).id].status = "pending"

\* ------------------------------------------------------------ post content
\* requests to POST / with two different texts, for both platforms, by
\* the user who has connected them; with or without a generation request
ContentScheduleInputs ==
  { [user |-> "u1", content |-> c, platform |-> "both",
     scheduledFor |-> DateAt(t), gen |-> g] :
       c \in {"hello", "world"}, g \in {NULL, Some("g1")}, t \in Times }

ContentScheduleRequests ==
  \E r \in ContentScheduleInputs :
    Schedule(r.user, r.content, r.platform, r.scheduledFor, r.gen)

NextContent ==
  \/ Advance
  \/ ContentScheduleRequests
  \/ PostRequests
  \/ Dispatch
  \/ \E t \in Ticks : RunAfterPrevious(t)

\* Spec with posts of different texts
SpecContent == Init /\ [][NextContent]_vars

\* C23: the content of a row never changes once the row exists (no
\* cancel, reschedule or dispatcher step writes it), and the content that
\* a run holds for its current post, which is what it passes to postTweet
\* and postText, is the content of that row.
C23_ContentImmutable ==
  /\ [][\A p \in PostIds : posts'[p].content = posts[p].content]_vars
  /\ [](\A t \in Ticks :
          pc[t] # "idle" => Post(t).content = posts[Post(t).id].content)

\* of two posts with different texts one was cancelled and the other
\* rescheduled and then published
C23_Witness ==
  \E p, q \in PostIds :
    /\ posts[p].content = "hello" /\ posts[p].status = "cancelled"
    /\ posts[q].content = "world" /\ posts[q].status = "posted"
    /\ posts[q].scheduledFor = 3 /\ posts[q].twitterPostedAt = Some(3)
    /\ calls[q].twitter = 1

\* C24: in one process at most one execution of processDuePosts is in
\* progress at any time, so no two executions hold the same post.
C24_RunsNeverOverlap ==
  \A s, t \in Ticks :
    s # t => ~(pc[s] # "idle" /\ pc[t] # "idle")

\* C25: a post whose status is cancelled has no platform post id, and no
\* run in progress holds a successful publish for it.
C25_CancelledNeverPublished ==
  \A p \in PostIds :
    posts[p].status = "cancelled" =>
      /\ posts[p].twitterPostId = NULL /\ posts[p].linkedinPostId = NULL
      /\ \A t \in Ticks :
           (pc[t] # "idle" /\ Post(t).id = p) =>
             (~cur[t].twitterSuccess /\ ~cur[t].linkedinSuccess)

\* C26: in every reachable state a pending post has its six outcome
\* fields null, a posted post has a platform post id, a failed post has no
\* platform post id and has a platform error, and for each platform of any
\* post the post id is set exactly when the posted-at time is, and never
\* together with the error.
C26_StatusOutcomeConsistent ==
  \A p \in PostIds :
    LET row == posts[p] IN
    /\ row.status = "pending" =>
         /\ row.twitterPostId = NULL /\ row.twitterPostedAt = NULL
         /\ row.twitterError = NULL
         /\ row.linkedinPostId = NULL /\ row.linkedinPostedAt = NULL
         /\ row.linkedinError = NULL
    /\ row.status = "posted" =>
         (row.twitterPostId # NULL \/ row.linkedinPostId # NULL)
    /\ row.status = "failed" =>
         /\ row.twitterPostId = NULL /\ row.linkedinPostId = NULL
         /\ row.twitterError # NULL \/ row.linkedinError # NULL
    /\ (row.twitterPostId # NULL) <=> (row.twitterPostedAt # NULL)
    /\ (row.linkedinPostId # NULL) <=> (row.linkedinPostedAt # NULL)
    /\ ~(row.twitterPostId # NULL /\ row.twitterError # NULL)
    /\ ~(row.linkedinPostId # NULL /\ row.linkedinError # NULL)

\* a post published to both platforms beside a post still pending
C26_Witness ==
  \E p, q \in PostIds :
    /\ posts[p].status = "posted"
    /\ posts[p].twitterPostId # NULL /\ posts[p].linkedinPostId # NULL
    /\ posts[q].status = "pending" /\ posts[q].scheduledFor > now

\* C27: a platform post id that is set in a row is never changed or
\* cleared by a later step, and a posted row never becomes failed.
C27_PublishRecordKept ==
  [][\A p \in PostIds :
       /\ posts[p].twitterPostId # NULL => posts'[p].twitterPostId = posts[p].twitterPostId
       /\ posts[p].linkedinPostId # NULL => posts'[p].linkedinPostId = posts[p].linkedinPostId
       /\ ~(posts[p].status = "posted" /\ posts'[p].status = "failed")]_vars

\* ------------------------------------------------------------- disconnect
\* POST /twitter/disconnect of user u
DisconnectTwitter(u) ==
  /\ users' = [users EXCEPT ![u].twitterAccessToken = NULL,
                            ![u].twitterAccessSecret = NULL]
  /\ UNCHANGED <<now, posts, gens, pc, batch, idx, cur, started, req, calls, oauthVars>>

\* POST /linkedin/disconnect of user u (the stored expiry is left as it is)
DisconnectLinkedIn(u) ==
  /\ users' = [users EXCEPT ![u].linkedinAccessToken = NULL]
  /\ UNCHANGED <<now, posts, gens, pc, batch, idx, cur, started, req, calls, oauthVars>>

\* the requests to POST / by the user who has connected both platforms
DisconnectScheduleInputs ==
  { r \in ScheduleInputs :
      /\ r.user = "u1" /\ r.content = "hello" /\ r.scheduledFor.kind = "date"
      /\ r.gen \in {NULL, Some("g1")} }

DisconnectScheduleRequests ==
  \E r \in DisconnectScheduleInputs :
    Schedule(r.user, r.content, r.platform, r.scheduledFor, r.gen)

NextDisconnect ==
  \/ Advance
  \/ DisconnectScheduleRequests
  \/ \E u \in Users : DisconnectTwitter(u)
  \/ \E u \in Users : DisconnectLinkedIn(u)
  \/ Dispatch
  \/ \E t \in Ticks : RunAfterPrevious(t)

\* the dispatcher and the schedule route with users who disconnect
SpecDisconnect == Init /\ [][NextDisconnect]_vars

\* C28: a publish call to a platform is made for a post only while the
\* post's user has a stored token for that platform: none is made once a
\* disconnect has set it to null.
C28_NoPublishAfterDisconnect ==
  [][\A p \in PostIds :
       /\ calls'[p].twitter # calls[p].twitter =>
            users[posts[p].userId].twitterAccessToken # NULL
       /\ calls'[p].linkedin # calls[p].linkedin =>
            users[posts[p].userId].linkedinAccessToken # NULL]_vars

\* C29: the generation request that a dispatched post refers to is
\* written by the step that follows the post's own update, and only if a
\* publish succeeded: the update goes on to the generation-request update
\* exactly when the post has a generation request and a platform
\* succeeded; that step marks the record posted, with the post id, for
\* each platform that succeeded and leaves the fields of the other
\* platform as they were; and no other step changes a generation record.
C29_GenerationMarking ==
  [][/\ \A t \in Ticks :
          /\ (pc[t] = "update" /\ DispatchStep(t)) =>
               ((pc'[t] = "generation") <=>
                  (Post(t).generationRequestId # NULL
                     /\ (cur[t].twitterSuccess \/ cur[t].linkedinSuccess)))
          /\ (pc[t] = "generation" /\ DispatchStep(t)
                /\ Post(t).generationRequestId[1] \in GenRows) =>
               LET g == Post(t).generationRequestId[1]
                   l == cur[t]
               IN /\ posts[Post(t).id].twitterPostId = l.twitterPostId
                  /\ posts[Post(t).id].linkedinPostId = l.linkedinPostId
                  /\ IF l.twitterSuccess
                     THEN gens'[g].postedToTwitter /\ gens'[g].twitterPostId = l.twitterPostId
                     ELSE /\ gens'[g].postedToTwitter = gens[g].postedToTwitter
                          /\ gens'[g].twitterPostId = gens[g].twitterPostId
                  /\ IF l.linkedinSuccess
                     THEN gens'[g].postedToLinkedIn /\ gens'[g].linkedinPostId = l.linkedinPostId
                     ELSE /\ gens'[g].postedToLinkedIn = gens[g].postedToLinkedIn
                          /\ gens'[g].linkedinPostId = gens[g].linkedinPostId
     /\ \A g \in GenRows :
          gens'[g] # gens[g] =>
            \E t \in Ticks :
              pc[t] = "generation" /\ Post(t).generationRequestId = Some(g)]_vars

\* a post to both platforms that refers to generation request g1 was
\* published to LinkedIn only, and g1 is marked for LinkedIn only
C29_Witness ==
  /\ gens["g1"].postedToLinkedIn /\ gens["g1"].linkedinPostId # NULL
  /\ ~gens["g1"].postedToTwitter /\ gens["g1"].twitterPostId = NULL
  /\ \E p \in PostIds :
       /\ posts[p].generationRequestId = Some("g1")
       /\ posts[p].status = "posted"
       /\ posts[p].twitterError # NULL /\ posts[p].linkedinPostId # NULL

\* ------------------------------------------------------- the OAuth routes
\* connect requests served so far, over the three providers
RECURSIVE IssuedIn(_, _)
IssuedIn(p, S) ==
  IF S = {} THEN 0
  ELSE LET s == CHOOSE x \in S : TRUE
       IN handshakes[p][s].issued + IssuedIn(p, S \ {s})

Connects ==
  IssuedIn("twitter", OAuthStates) + IssuedIn("linkedin", OAuthStates)
    + IssuedIn("canva", OAuthStates)

\* the history of a provider's key after user u was handed it
Issue(p, s, u) ==
  [ handshakes EXCEPT ![p][s].issuers = @ \cup {u}, ![p][s].issued = @ + 1 ]

\* the history of a provider's key after a callback found it in the Map;
\* the count stops one above the number of connect requests
Accept(p, s) ==
  [ handshakes EXCEPT ![p][s].accepted = IF @ <= MaxConnects THEN @ + 1 ELSE @ ]

\* GET /twitter/connect by the authenticated user u: Twitter hands out a
\* request token it has not handed out before, and the handler files it
\* under the user's id
TwitterConnect(u, tok) ==
  /\ Connects < MaxConnects
  /\ handshakes["twitter"][tok].issued = 0
  /\ oauthTokenStore' = [ oauthTokenStore EXCEPT ![tok] = Some(u) ]
  /\ handshakes' = Issue("twitter", tok, u)
  /\ UNCHANGED <<now, users, posts, gens, pc, batch, idx, cur, started, req, calls,
                 linkedinStateStore, canvaStateStore, canvaAccessToken, callbacks>>

\* GET /linkedin/connect by the authenticated user u: the state is
\* Math.random().toString(36).substring(7), any value of OAuthStates, and
\* Map.set replaces what was filed under it
LinkedInConnect(u, s) ==
  /\ Connects < MaxConnects
  /\ linkedinStateStore' = [ linkedinStateStore EXCEPT ![s] = Some(u) ]
  /\ handshakes' = Issue("linkedin", s, u)
  /\ UNCHANGED <<now, users, posts, gens, pc, batch, idx, cur, started, req, calls,
                 oauthTokenStore, canvaStateStore, canvaAccessToken, callbacks>>

\* GET /canva/connect by the authenticated user u
CanvaConnect(u, s) ==
  /\ Connects < MaxConnects
  /\ canvaStateStore' = [ canvaStateStore EXCEPT ![s] = Some(u) ]
  /\ handshakes' = Issue("canva", s, u)
  /\ UNCHANGED <<now, users, posts, gens, pc, batch, idx, cur, started, req, calls,
                 oauthTokenStore, linkedinStateStore, canvaAccessToken, callbacks>>

\* the oauth_token or state of a callback's query; "" stands for an absent
\* value
StateInputs == {""} \cup OAuthStates

\* a slot is free when it has served no request or answered its last one
Free(c) == callbacks[c].provider = "none" \/ callbacks[c].code # 0

\* what a slot holds once its request is answered (of a refused request the
\* key it carried, of the others the answer alone), and while the request
\* waits for the provider's token endpoint (code 0)
Answered(p, s, u, code) == [ provider |-> p, state |-> s, userId |-> u, code |-> code ]
Exchanging(p, s, u)     == [ provider |-> p, state |-> s, userId |-> u, code |-> 0 ]

\* Map.get(key) finds an entry
InStore(store, s) == s # "" /\ store[s] # NULL

\* GET /twitter/callback up to its first await: the token stays in the Map
\* while the access token is fetched
TwitterCallback(c, tok) ==
  /\ Free(c)
  /\ IF ~InStore(oauthTokenStore, tok)
     THEN /\ callbacks' = [ callbacks EXCEPT ![c] = Answered("twitter", tok, "", 400) ]
          /\ UNCHANGED handshakes
     ELSE /\ callbacks' = [ callbacks EXCEPT ![c] =
                              Exchanging("twitter", tok, oauthTokenStore[tok][1]) ]
          /\ handshakes' = Accept("twitter", tok)
  /\ UNCHANGED <<now, users, posts, gens, pc, batch, idx, cur, started, req, calls,
                 oauthTokenStore, linkedinStateStore, canvaStateStore, canvaAccessToken>>

\* GET /twitter/callback from the answer of getAccessToken on: the token is
\* deleted and the user named in the Map entry is updated; a failed
\* exchange is answered 500 and leaves the Map as it is
TwitterExchange(c, ok) ==
  /\ callbacks[c].provider = "twitter" /\ callbacks[c].code = 0
  /\ LET tok == callbacks[c].state
         u   == callbacks[c].userId
     IN IF ok
        THEN /\ oauthTokenStore' = [ oauthTokenStore EXCEPT ![tok] = NULL ]
             /\ users' = [ users EXCEPT ![u].twitterAccessToken = Some(tok),
                                        ![u].twitterAccessSecret = Some("sec") ]
             /\ callbacks' = [ callbacks EXCEPT ![c] = Answered("twitter", "", "", 302) ]
        ELSE /\ callbacks' = [ callbacks EXCEPT ![c] = Answered("twitter", "", "", 500) ]
             /\ UNCHANGED <<oauthTokenStore, users>>
  /\ UNCHANGED <<now, posts, gens, pc, batch, idx, cur, started, req, calls,
                 linkedinStateStore, canvaStateStore, canvaAccessToken, handshakes>>

\* LinkedInCallback with the state left in the Map until the exchange has
\* been answered, as the Twitter callback leaves its token
LinkedInCallback_KeepsState(c, s, error) ==
  /\ Free(c)
  /\ IF error
     THEN /\ callbacks' = [ callbacks EXCEPT ![c] = Answered("linkedin", "", "", 302) ]
          /\ UNCHANGED <<linkedinStateStore, handshakes>>
     ELSE IF ~InStore(linkedinStateStore, s)
     THEN /\ callbacks' = [ callbacks EXCEPT ![c] = Answered("linkedin", s, "", 400) ]
          /\ UNCHANGED <<linkedinStateStore, handshakes>>
     ELSE /\ UNCHANGED linkedinStateStore
          /\ callbacks' = [ callbacks EXCEPT ![c] =
                              Exchanging("linkedin", s, linkedinStateStore[s][1]) ]
          /\ handshakes' = Accept("linkedin", s)
  /\ UNCHANGED <<now, users, posts, gens, pc, batch, idx, cur, started, req, calls,
                 oauthTokenStore, canvaStateStore, canvaAccessToken>>

\* GET /linkedin/callback up to its first await: an error reported by
\* LinkedIn is redirected to the frontend, a state that is absent or not
\* in the Map is answered 400, and a state that is in the Map is deleted
\* before the access token is fetched
LinkedInCallback(c, s, error) ==
  /\ Free(c)
  /\ IF error
     THEN /\ callbacks' = [ callbacks EXCEPT ![c] = Answered("linkedin", "", "", 302) ]
          /\ UNCHANGED <<linkedinStateStore, handshakes>>
     ELSE IF ~InStore(linkedinStateStore, s)
     THEN /\ callbacks' = [ callbacks EXCEPT ![c] = Answered("linkedin", s, "", 400) ]
          /\ UNCHANGED <<linkedinStateStore, handshakes>>
     ELSE /\ linkedinStateStore' = [ linkedinStateStore EXCEPT ![s] = NULL ]
          /\ callbacks' = [ callbacks EXCEPT ![c] =
                              Exchanging("linkedin", s, linkedinStateStore[s][1]) ]
          /\ handshakes' = Accept("linkedin", s)
  /\ UNCHANGED <<now, users, posts, gens, pc, batch, idx, cur, started, req, calls,
                 oauthTokenStore, canvaStateStore, canvaAccessToken>>

\* GET /linkedin/callback from the answers of getAccessToken and getProfile
\* on: the user that was filed under the state is updated (the token's
\* expiry is not stored); a failed exchange is answered 500
LinkedInExchange(c, ok) ==
  /\ callbacks[c].provider = "linkedin" /\ callbacks[c].code = 0
  /\ LET s == callbacks[c].state
         u == callbacks[c].userId
     IN IF ok
        THEN /\ users' = [ users EXCEPT ![u].linkedinAccessToken = Some(s) ]
             /\ callbacks' = [ callbacks EXCEPT ![c] = Answered("linkedin", "", "", 302) ]
        ELSE /\ callbacks' = [ callbacks EXCEPT ![c] = Answered("linkedin", "", "", 500) ]
             /\ UNCHANGED users
  /\ UNCHANGED <<now, posts, gens, pc, batch, idx, cur, started, req, calls,
                 oauthTokenStore, linkedinStateStore, canvaStateStore,
                 canvaAccessToken, handshakes>>

\* GET /canva/callback up to its first await, as the LinkedIn callback
CanvaCallback(c, s, error) ==
  /\ Free(c)
  /\ IF error
     THEN /\ callbacks' = [ callbacks EXCEPT ![c] = Answered("canva", "", "", 302) ]
          /\ UNCHANGED <<canvaStateStore, handshakes>>
     ELSE IF ~InStore(canvaStateStore, s)
     THEN /\ callbacks' = [ callbacks EXCEPT ![c] = Answered("canva", s, "", 400) ]
          /\ UNCHANGED <<canvaStateStore, handshakes>>
     ELSE /\ canvaStateStore' = [ canvaStateStore EXCEPT ![s] = NULL ]
          /\ callbacks' = [ callbacks EXCEPT ![c] =
                              Exchanging("canva", s, canvaStateStore[s][1]) ]
          /\ handshakes' = Accept("canva", s)
  /\ UNCHANGED <<now, users, posts, gens, pc, batch, idx, cur, started, req, calls,
                 oauthTokenStore, linkedinStateStore, canvaAccessToken>>

\* GET /canva/callback from the answers of getAccessToken and getProfile on
CanvaExchange(c, ok) ==
  /\ callbacks[c].provider = "canva" /\ callbacks[c].code = 0
  /\ LET s == callbacks[c].state
         u == callbacks[c].userId
     IN IF ok
        THEN /\ canvaAccessToken' = [ canvaAccessToken EXCEPT ![u] = Some(s) ]
             /\ callbacks' = [ callbacks EXCEPT ![c] = Answered("canva", "", "", 302) ]
        ELSE /\ callbacks' = [ callbacks EXCEPT ![c] = Answered("canva", "", "", 500) ]
             /\ UNCHANGED canvaAccessToken
  /\ UNCHANGED <<now, users, posts, gens, pc, batch, idx, cur, started, req, calls,
                 oauthTokenStore, linkedinStateStore, canvaStateStore, handshakes>>

TwitterConnects  == \E u \in Users, s \in OAuthStates : TwitterConnect(u, s)
LinkedInConnects == \E u \in Users, s \in OAuthStates : LinkedInConnect(u, s)
CanvaConnects    == \E u \in Users, s \in OAuthStates : CanvaConnect(u, s)
TwitterCallbacks   == \E c \in Callbacks, s \in StateInputs : TwitterCallback(c, s)
LinkedInCallbacks  ==
  \E c \in Callbacks, s \in StateInputs, e \in BOOLEAN : LinkedInCallback(c, s, e)
CanvaCallbacks     ==
  \E c \in Callbacks, s \in StateInputs, e \in BOOLEAN : CanvaCallback(c, s, e)
TwitterExchanges   == \E c \in Callbacks, ok \in BOOLEAN : TwitterExchange(c, ok)
LinkedInExchanges  == \E c \in Callbacks, ok \in BOOLEAN : LinkedInExchange(c, ok)
CanvaExchanges     == \E c \in Callbacks, ok \in BOOLEAN : CanvaExchange(c, ok)

NextOAuth ==
  \/ TwitterConnects
  \/ LinkedInConnects
  \/ CanvaConnects
  \/ TwitterCallbacks
  \/ LinkedInCallbacks
  \/ CanvaCallbacks
  \/ TwitterExchanges
  \/ LinkedInExchanges
  \/ CanvaExchanges

SpecOAuth == Init /\ [][NextOAuth]_vars

\* ------------------------------------------------- C30: the OAuth handshake
\* the Map a provider's callback looks its key up in
StoreOf(p) ==
  CASE p = "twitter"  -> oauthTokenStore
    [] p = "linkedin" -> linkedinStateStore
    [] p = "canva"    -> canvaStateStore

\* slot c answers or takes up a request in this step
Serves(c) == Free(c) /\ callbacks'[c] # callbacks[c]

\* the stored credentials of user u
Credentials(u) == <<users[u], canvaAccessToken[u]>>

====
